---- MODULE Spec2Model ----
(***************************************************************************)
(* Chunked upload transport of services/drive.ts (uploadFileToScript).     *)
(* One upload session: init handshake, then the chunk loop with its        *)
(* per-chunk retry loop, backoff and progress callback.  Each action is    *)
(* one step of the async function between two suspension points, or one    *)
(* loop-head / branch decision of it.                                      *)
(***************************************************************************)
EXTENDS Integers, Naturals, Sequences, FiniteSets, TLC

\* ---------------------------------------------------------------- bounds
\* small files have 0..MaxChunks chunks
MaxChunks == 3
\* number of chunks of the two large files of the model
TieChunks == 40
LargeChunks == 200
\* failed chunk attempts the endpoint may produce in one session
MaxFaults == 3

\* ------------------------------------------------------ program constants
CHUNK_SIZE == 5 * 1024 * 1024
RETRIES == 3

\* file sizes around every chunk boundary, and one large file
SmallSizes ==
  { k * CHUNK_SIZE + d : k \in 0..MaxChunks, d \in {-1, 0, 1} }
    \cap (0..(MaxChunks * CHUNK_SIZE))
LargeSizes ==
  { (TieChunks - 1) * CHUNK_SIZE + 1, (LargeChunks - 1) * CHUNK_SIZE + 1 }
FileSizes == SmallSizes \cup LargeSizes

\* outcomes of the init request, of the encode step and of a chunk request
InitOutcomes == {"network", "html", "parse", "statusError", "noUrl", "ok"}
EncodeOutcomes == {"ok", "readError"}
ChunkOutcomes ==
  {"network", "http", "parse", "statusError", "statusSuccess", "statusOther"}
Urls == {"urlA", "urlB"}
\* the session identifier a chunk response may carry ("none": it has none)
SessionIds == {"none", "sidA"}

\* ---------------------------------------------------------- pure helpers
\* Math.ceil(a / b) for a >= 0, b > 0
Ceil(a, b) == IF a % b = 0 THEN a \div b ELSE (a \div b) + 1
Min(a, b) == IF a < b THEN a ELSE b

\* IEEE-754 double arithmetic of line 125, on 53-bit significands held as
\* five limbs << top, l1, l2, l3, l4 >> in base 2^13 (top carries bit 52 up)
Base == 8192
Pow2(n) == IF n = 0 THEN 1 ELSE 2 ^ n
\* carry propagation from the lowest limb to the top one
Norm(l) ==
  LET v5 == l[5]
      v4 == l[4] + (v5 \div Base)
      v3 == l[3] + (v4 \div Base)
      v2 == l[2] + (v3 \div Base)
      v1 == l[1] + (v2 \div Base)
  IN << v1, v2 % Base, v3 % Base, v4 % Base, v5 % Base >>
\* round-to-nearest-even of remainder r out of unit u, given the parity of
\* the kept part
RoundsUp(r, u, odd) == 2 * r > u \/ (2 * r = u /\ odd)
\* a / b for 1 <= a <= b: the double sig * 2^-(52 + exp), 2^52 <= sig <= 2^53
DoubleDiv(a, b) ==
  LET k == CHOOSE n \in 0..30 :
             a * Pow2(n) >= b /\ (n > 0 => a * Pow2(n - 1) < b)
      r0 == a * Pow2(k) - b
      l1 == (r0 * Base) \div b
      r1 == (r0 * Base) % b
      l2 == (r1 * Base) \div b
      r2 == (r1 * Base) % b
      l3 == (r2 * Base) \div b
      r3 == (r2 * Base) % b
      l4 == (r3 * Base) \div b
      r4 == (r3 * Base) % b
      up == IF RoundsUp(r4, b, l4 % 2 = 1) THEN 1 ELSE 0
  IN [exp |-> k, sig |-> Norm(<< 1, l1, l2, l3, l4 + up >>)]
\* d * 100, rounded to 53 significant bits (the product has 59 or 60)
DoubleTimes100(d) ==
  LET p == Norm(<< 100 * d.sig[1], 100 * d.sig[2], 100 * d.sig[3],
                   100 * d.sig[4], 100 * d.sig[5] >>)
      u == IF p[1] < 128 THEN 64 ELSE 128
      q == p[5] \div u
      up == IF RoundsUp(p[5] % u, u, q % 2 = 1) THEN 1 ELSE 0
  IN [exp |-> d.exp,
      sig |-> Norm(<< p[1], p[2], p[3], p[4], (q + up) * u >>)]
\* Math.round(d): the integer part plus the first fraction bit (ties go up)
MathRound(d) ==
  LET half == IF d.exp = 0 THEN d.sig[2] \div (Base \div 2)
                           ELSE (d.sig[1] \div Pow2(d.exp - 1)) % 2
  IN (d.sig[1] \div Pow2(d.exp)) + half

\* variant: Math.floor in place of Math.ceil
TotalChunksFloor(size) == size \div CHUNK_SIZE
TotalChunks(size) == Ceil(size, CHUNK_SIZE)
ChunkStart(idx) == idx * CHUNK_SIZE
\* variant: the end is not clamped to file.size
ChunkEndNoMin(idx, size) == ChunkStart(idx) + CHUNK_SIZE
ChunkEnd(idx, size) == Min(size, ChunkStart(idx) + CHUNK_SIZE)
\* variant: Math.floor in place of Math.round
ProgressFloor(idx, total) == ((idx + 1) * 100) \div total
Progress(idx, total) == MathRound(DoubleTimes100(DoubleDiv(idx + 1, total)))

\* variant: the range ends at the exclusive end of the slice
RangeEndExclusive(e) == e

\* line 83: the inclusive end of the Content-Range of a slice ending at e
RangeEnd(e) == e - 1

\* variant: the callback is called twice
CallsTwice(log, p) == Append(Append(log, p), p)

\* line 126: one call of onProgress with p
Calls(log, p) == Append(log, p)

\* lines 85-90: the identifiers a chunk payload carries
PayloadIds(p) == {p.uploadUrl}

\* line 107: json.status of a chunk response, "none" when no body was parsed
ResponseStatus(o) ==
  CASE o = "statusSuccess" -> "success"
    [] o = "statusError" -> "error"
    [] o = "statusOther" -> "other"
    [] OTHER -> "none"

\* variant: a body that cannot be parsed is not an error
ChunkErrorParseOk(o) ==
  CASE o = "network" -> "network"
    [] o = "http" -> "http"
    [] o = "statusError" -> "status"
    [] OTHER -> "none"

\* the error a chunk attempt with a failing outcome throws, "none" if it
\* does not throw
ChunkError(o) ==
  CASE o = "network" -> "network"
    [] o = "http" -> "http"
    [] o = "parse" -> "parse"
    [] o = "statusError" -> "status"
    [] OTHER -> "none"

VARIABLES
  fileSize,      \* file.size
  hasOnProgress, \* whether the caller passed onProgress
  pc,            \* position in uploadFileToScript
  totalChunks,
  uploadUrl,     \* initJson.url, "none" before
  i,             \* loop index
  start, end,    \* byte range of the current chunk
  payload,       \* chunkPayload of the current chunk
  retries, chunkSuccess, lastError,
  result,        \* "pending", "resolved" ({status:'success'}) or "rejected"
  thrown,        \* the error the promise rejected with
  failedAt,      \* the step that threw: "init", "encode" or "chunk"
  progressLog,   \* values passed to onProgress, in order
  \* observation of the traffic
  inFlight,      \* chunk indices with a request awaiting its response
  sent,          \* chunk indices a request was sent for
  succeeded,     \* chunk indices whose request succeeded
  attempts,      \* requests sent for the current chunk
  errorLog,      \* errors caught for the current chunk, in order
  prevEnd,       \* end of the previous chunk's range
  initRequests, chunkRequests, pauses, faults,
  initParsed,    \* initResponse.json() was called
  returnedId,    \* session identifier carried by chunk 0's response
  respStatus,    \* status field of the current chunk's last parsed response
  issuedUrl,     \* url field of this session's init response
  otherUrls,     \* urls the endpoint issued to other sessions
  sessions,      \* calls of uploadFileToScript followed so far
  \* state of the SubmissionForm component
  formData, scriptUrl, status, progress,
  subs,          \* the handleSubmit calls: position and captured values
  downloadLog,   \* the calls of downloadRenamedFile, in order
  events,        \* number of user events handled so far
  testStatus, testMessage,
  testLog,       \* the calls of testScriptConnection: url, request, outcome
  lastFinished   \* index in testLog of the call that settled last, 0 if none

\* the variables of uploadFileToScript that most steps leave alone
urlVars == << issuedUrl, otherUrls, sessions >>
obsVars == << initParsed, returnedId, respStatus, urlVars >>
testVars == << testStatus, testMessage, testLog, lastFinished >>
formVars ==
  << formData, scriptUrl, status, progress, subs, downloadLog, events,
     testVars >>

sessionVars ==
  << fileSize, hasOnProgress, pc, totalChunks, uploadUrl, i, start, end,
     payload, retries, chunkSuccess, lastError, result, thrown, failedAt,
     progressLog, inFlight, sent, succeeded, attempts, errorLog, prevEnd,
     initRequests, chunkRequests, pauses, faults, initParsed, returnedId,
     respStatus, urlVars >>

vars == << fileSize, hasOnProgress, pc, totalChunks, uploadUrl, i, start, end,
           payload, retries, chunkSuccess, lastError, result, thrown,
           failedAt, progressLog, inFlight, sent, succeeded, attempts, errorLog,
           prevEnd, initRequests, chunkRequests, pauses, faults, initParsed,
           returnedId, respStatus, issuedUrl, otherUrls, sessions, formData,
           scriptUrl, status, progress, subs, downloadLog, events,
           testStatus, testMessage, testLog, lastFinished >>

NoPayload == [uploadUrl |-> "none", from |-> 0, to |-> 0, rangeStart |-> 0,
              rangeEnd |-> 0, rangeTotal |-> 0]

\* uploadFileToScript before it is called
SessionInit ==
  /\ pc = "idle"
  /\ totalChunks = 0
  /\ uploadUrl = "none"
  /\ i = 0
  /\ start = 0
  /\ end = 0
  /\ payload = NoPayload
  /\ retries = 0
  /\ chunkSuccess = FALSE
  /\ lastError = "none"
  /\ result = "pending"
  /\ thrown = "none"
  /\ failedAt = "none"
  /\ progressLog = << >>
  /\ inFlight = {}
  /\ sent = {}
  /\ succeeded = {}
  /\ attempts = 0
  /\ errorLog = << >>
  /\ prevEnd = 0
  /\ initRequests = 0
  /\ chunkRequests = 0
  /\ pauses = 0
  /\ faults = 0
  /\ initParsed = FALSE
  /\ returnedId = "none"
  /\ respStatus = "none"
  /\ issuedUrl = "none"
  /\ otherUrls = {}
  /\ sessions = 1

\* ------------------------------------------------- SubmissionForm, state
DEFAULT_SCRIPT_URL == "default"
NoFile == [name |-> << >>, size |-> 0, type |-> "none"]
NoSub == [pos |-> "none", canUpload |-> FALSE, tracked |-> FALSE,
          delivered |-> 0, error |-> "none", file |-> NoFile,
          renamedFile |-> << >>]
\* handleSubmit calls the model follows
MaxSubmits == 2
\* user events (clicks, typing, file selection) the model follows
MaxEvents == 8

\* the component after construction (useState initial values)
FormInit ==
  /\ formData = [firstName |-> "", lastName |-> "", section |-> "",
                 file |-> NoFile]
  /\ scriptUrl = DEFAULT_SCRIPT_URL
  /\ status = [state |-> "idle", message |-> << "" >>,
               renamedFileName |-> << >>]
  /\ progress = 0
  /\ subs = [n \in 1..MaxSubmits |-> NoSub]
  /\ downloadLog = << >>
  /\ events = 0
  /\ testStatus = "idle"
  /\ testMessage = ""
  /\ testLog = << >>
  /\ lastFinished = 0

\* the submission that awaits the session the model follows step by step
TrackedSub == { n \in 1..MaxSubmits : subs[n].tracked /\ subs[n].pos = "upload" }

\* lines 252-259: the progress callback handleSubmit passes
OnProgress(percent) ==
  IF TrackedSub = {}
    THEN UNCHANGED formVars
    ELSE /\ progress' = percent
         /\ status' = [status EXCEPT !.state = "uploading",
                                     !.message = << "Uploading", percent >>]
         /\ UNCHANGED << formData, scriptUrl, subs, downloadLog, events,
                         testVars >>

Init ==
  /\ fileSize \in FileSizes
  /\ hasOnProgress \in BOOLEAN
  /\ SessionInit
  /\ FormInit

\* variant: the failure is returned as the value of the promise
RejectResolves(e, w) ==
  /\ pc' = "failed"
  /\ result' = "resolved"
  /\ thrown' = e
  /\ failedAt' = w

\* the async function throws e at step w: its promise rejects with e
Reject(e, w) ==
  /\ pc' = "failed"
  /\ result' = "rejected"
  /\ thrown' = e
  /\ failedAt' = w

\* lines 36-57: the call with a file of the given size, with or without an
\* onProgress callback: compute totalChunks, send the init request
Begin(size, cb) ==
  /\ pc = "idle"
  /\ fileSize' = size
  /\ hasOnProgress' = cb
  /\ totalChunks' = TotalChunks(size)
  /\ initRequests' = initRequests + 1
  /\ pc' = "init"
  /\ UNCHANGED << uploadUrl, i, start, end, payload,
                  retries, chunkSuccess, lastError, result, thrown, failedAt,
                  progressLog, inFlight, sent, succeeded, attempts, errorLog,
                  prevEnd, chunkRequests, pauses, faults, obsVars >>

\* a direct call of uploadFileToScript
StartSession ==
  /\ Begin(fileSize, hasOnProgress)
  /\ UNCHANGED formVars

\* variant: the body is parsed before the content type is looked at
InitParsesFirst(o) == o # "network"

\* lines 59-65: initResponse.json() is reached unless fetch threw or the
\* content type is text/html
InitParses(o) == o \notin {"network", "html"}

\* variant: the url of another session is used when there is one
InitUrlReused(o, u) ==
  IF o = "noUrl" THEN "none"
    ELSE IF otherUrls # {} THEN CHOOSE x \in otherUrls : TRUE ELSE u

\* line 70: initJson.url, undefined ("none") when the response has none
InitUrl(o, u) == IF o = "noUrl" THEN "none" ELSE u

\* variant: a response without url passes
InitOkNoUrlCheck(o) == o \in {"ok", "noUrl"}

\* line 66: status is 'success' and url is set
InitOk(o) == o = "ok"

\* lines 50-70: the init response arrives
InitResponse ==
  /\ pc = "init"
  /\ \E o \in InitOutcomes, u \in Urls :
       /\ initParsed' = InitParses(o)
       /\ issuedUrl' = IF o = "ok" THEN u ELSE "none"
       /\ IF InitOk(o)
            THEN /\ uploadUrl' = InitUrl(o, u)
                 /\ i' = 0
                 /\ pc' = "loop"
                 /\ UNCHANGED << result, thrown, failedAt >>
            ELSE /\ Reject(IF o = "statusError" \/ o = "noUrl"
                             THEN "init" ELSE o, "init")
                 /\ UNCHANGED << uploadUrl, i >>
  /\ UNCHANGED << fileSize, hasOnProgress, totalChunks, start, end, payload,
                  retries, chunkSuccess, lastError, progressLog, inFlight,
                  sent, succeeded, attempts, errorLog, prevEnd, initRequests,
                  chunkRequests, pauses, faults, returnedId, respStatus,
                  otherUrls, sessions >>
  /\ UNCHANGED formVars

\* variant: the loop stops before the last chunk
LoopCondShort == i < totalChunks - 1

\* line 73: the condition of the chunk loop
LoopCond == i < totalChunks

\* lines 73-76 and 130: loop head; slice the next chunk or return success
LoopHead ==
  /\ pc = "loop"
  /\ IF LoopCond
       THEN /\ start' = ChunkStart(i)
            /\ end' = ChunkEnd(i, fileSize)
            /\ pc' = "encode"
            /\ UNCHANGED result
       ELSE /\ pc' = "done"
            /\ result' = "resolved"
            /\ UNCHANGED << start, end >>
  /\ UNCHANGED << thrown, failedAt >>
  /\ UNCHANGED << fileSize, hasOnProgress, totalChunks, uploadUrl, i, payload,
                  retries, chunkSuccess, lastError, progressLog,
                  inFlight, sent, succeeded, attempts, errorLog, prevEnd,
                  initRequests, chunkRequests, pauses, faults, obsVars >>
  /\ UNCHANGED formVars

\* variant: a chunk that cannot be read is skipped
EncodeFailSkips ==
  /\ i' = i + 1
  /\ pc' = "loop"
  /\ UNCHANGED << payload, retries, chunkSuccess, lastError, attempts,
                  errorLog, result, thrown, failedAt >>

\* lines 16 and 79: blobToBase64 rejects and the await throws, outside any try
EncodeFail ==
  /\ Reject("read", "encode")
  /\ UNCHANGED << payload, retries, chunkSuccess, lastError, attempts,
                  errorLog, i >>

\* lines 79-95: blobToBase64 settles; build the payload, reset the retry state
EncodeDone ==
  /\ pc = "encode"
  /\ \E o \in EncodeOutcomes :
       IF o = "ok"
         THEN /\ payload' = [uploadUrl |-> uploadUrl, from |-> start,
                             to |-> end, rangeStart |-> start,
                             rangeEnd |-> RangeEnd(end), rangeTotal |-> fileSize]
              /\ retries' = RETRIES
              /\ chunkSuccess' = FALSE
              /\ lastError' = "none"
              /\ attempts' = 0
              /\ errorLog' = << >>
              /\ pc' = "while"
              /\ UNCHANGED << result, thrown, failedAt, i >>
         ELSE EncodeFail
  /\ UNCHANGED << fileSize, hasOnProgress, totalChunks, uploadUrl, start,
                  end, progressLog, inFlight, sent, succeeded, prevEnd,
                  initRequests, chunkRequests, pauses, faults, obsVars >>
  /\ UNCHANGED formVars

\* variant: one retry too many
WhileCondOffByOne == retries >= 0 /\ ~chunkSuccess

\* line 97: the condition of the retry loop
WhileCond == retries > 0 /\ ~chunkSuccess

\* lines 97-103: while head; send the chunk request or leave the loop
WhileHead ==
  /\ pc = "while"
  /\ IF WhileCond
       THEN /\ inFlight' = inFlight \cup {i}
            /\ sent' = sent \cup {i}
            /\ attempts' = attempts + 1
            /\ chunkRequests' = chunkRequests + 1
            /\ pc' = "fetch"
       ELSE /\ pc' = "afterWhile"
            /\ UNCHANGED << inFlight, sent, attempts, chunkRequests >>
  /\ UNCHANGED << fileSize, hasOnProgress, totalChunks, uploadUrl, i, start,
                  end, payload, retries, chunkSuccess, lastError, result,
                  thrown, failedAt, progressLog, succeeded, errorLog, prevEnd,
                  initRequests, pauses, faults, obsVars >>
  /\ UNCHANGED formVars

\* variant: a failed attempt costs nothing
NextRetriesSame(r) == r

\* line 114: retries--
NextRetries(r) == r - 1

\* variant: a pause follows every failed attempt
BackoffAlways(r) == TRUE

\* line 115: a pause follows while attempts remain
BackoffCond(r) == r > 0

\* variant: the catch block keeps the first error it saw
CatchFirstError(e) ==
  /\ lastError' = IF lastError = "none" THEN e ELSE lastError
  /\ errorLog' = Append(errorLog, e)
  /\ retries' = NextRetries(retries)
  /\ pc' = IF BackoffCond(NextRetries(retries)) THEN "backoff" ELSE "while"
  /\ UNCHANGED << chunkSuccess, succeeded >>

\* lines 111-115: the catch block
Catch(e) ==
  /\ lastError' = e
  /\ errorLog' = Append(errorLog, e)
  /\ retries' = NextRetries(retries)
  /\ pc' = IF BackoffCond(NextRetries(retries)) THEN "backoff" ELSE "while"
  /\ UNCHANGED << chunkSuccess, succeeded >>

\* variant: the success flag is not set
AcceptNoFlag ==
  /\ succeeded' = succeeded \cup {i}
  /\ pc' = "while"
  /\ UNCHANGED << chunkSuccess, lastError, errorLog, retries >>

\* lines 105-110: the response passed every check
Accept ==
  /\ chunkSuccess' = TRUE
  /\ succeeded' = succeeded \cup {i}
  /\ pc' = "while"
  /\ UNCHANGED << lastError, errorLog, retries >>

\* lines 99-116: the chunk request settles
ChunkResponse ==
  /\ pc = "fetch"
  /\ \E o \in ChunkOutcomes :
       /\ ChunkError(o) # "none" => faults < MaxFaults
       /\ faults' = IF ChunkError(o) # "none" THEN faults + 1 ELSE faults
       /\ IF ChunkError(o) # "none" THEN Catch(ChunkError(o)) ELSE Accept
       /\ \E sid \in SessionIds :
            returnedId' = IF ChunkError(o) = "none" /\ i = 0
                            THEN sid ELSE returnedId
       /\ respStatus' = ResponseStatus(o)
  /\ inFlight' = inFlight \ {i}
  /\ UNCHANGED << fileSize, hasOnProgress, totalChunks, uploadUrl, i, start,
                  end, payload, result, thrown, failedAt, progressLog, sent,
                  attempts, prevEnd, initRequests, chunkRequests, pauses,
                  initParsed, urlVars >>
  /\ UNCHANGED formVars

\* line 115: the 2 second timer fires
BackoffDone ==
  /\ pc = "backoff"
  /\ pauses' = pauses + 1
  /\ pc' = "while"
  /\ UNCHANGED << fileSize, hasOnProgress, totalChunks, uploadUrl, i, start,
                  end, payload, retries, chunkSuccess, lastError, result,
                  thrown, failedAt, progressLog, inFlight, sent, succeeded,
                  attempts, errorLog, prevEnd, initRequests, chunkRequests,
                  faults, obsVars >>
  /\ UNCHANGED formVars

\* variant: any caught error gives the chunk up
ThrowCondOnError == lastError # "none"

\* line 119: the chunk is given up
ThrowCond == ~chunkSuccess

\* lines 119-128: after the retry loop; throw, or report progress and advance
AfterWhile ==
  /\ pc = "afterWhile"
  /\ IF ThrowCond
       THEN /\ Reject(IF lastError # "none" THEN lastError ELSE "retries",
                      "chunk")
            /\ UNCHANGED << progressLog, i, prevEnd, respStatus >>
            /\ UNCHANGED formVars
       ELSE /\ IF hasOnProgress
                 THEN /\ progressLog' =
                           Calls(progressLog, Progress(i, totalChunks))
                      /\ OnProgress(Progress(i, totalChunks))
                 ELSE UNCHANGED << progressLog, formVars >>
            /\ prevEnd' = end
            /\ i' = i + 1
            /\ respStatus' = "none"
            /\ pc' = "loop"
            /\ UNCHANGED << result, thrown, failedAt >>
  /\ UNCHANGED << fileSize, hasOnProgress, totalChunks, uploadUrl, start, end,
                  payload, retries, chunkSuccess, lastError, inFlight, sent,
                  succeeded, attempts, errorLog, initRequests, chunkRequests,
                  pauses, faults, initParsed, returnedId, urlVars >>

Next ==
  \/ StartSession
  \/ InitResponse
  \/ LoopHead
  \/ EncodeDone
  \/ WhileHead
  \/ ChunkResponse
  \/ BackoffDone
  \/ AfterWhile

Spec == Init /\ [][Next]_vars

\* every step of the function that can be taken is taken: requests and
\* encode steps settle, timers fire, the code between two awaits runs
InitLive ==
  /\ fileSize \in SmallSizes
  /\ hasOnProgress = FALSE
  /\ SessionInit
  /\ FormInit

SpecLive == InitLive /\ [][Next]_vars /\ WF_vars(Next)

\* ------------------------------------------------------ several sessions
\* calls of uploadFileToScript followed one after the other
MaxSessions == 2
SessionSizes == {1, CHUNK_SIZE + 1}

\* line 36: the call followed has settled and a later call is followed; its
\* parameters and local variables are new
NewSession ==
  /\ pc \in {"done", "failed"}
  /\ sessions < MaxSessions
  /\ sessions' = sessions + 1
  /\ otherUrls' = otherUrls \cup ({issuedUrl} \ {"none"})
  /\ fileSize' \in SessionSizes
  /\ pc' = "idle"
  /\ totalChunks' = 0
  /\ uploadUrl' = "none"
  /\ i' = 0
  /\ start' = 0
  /\ end' = 0
  /\ payload' = NoPayload
  /\ retries' = 0
  /\ chunkSuccess' = FALSE
  /\ lastError' = "none"
  /\ result' = "pending"
  /\ thrown' = "none"
  /\ failedAt' = "none"
  /\ progressLog' = << >>
  /\ inFlight' = {}
  /\ sent' = {}
  /\ succeeded' = {}
  /\ attempts' = 0
  /\ errorLog' = << >>
  /\ prevEnd' = 0
  /\ initRequests' = 0
  /\ chunkRequests' = 0
  /\ pauses' = 0
  /\ faults' = 0
  /\ initParsed' = FALSE
  /\ returnedId' = "none"
  /\ respStatus' = "none"
  /\ issuedUrl' = "none"
  /\ UNCHANGED hasOnProgress
  /\ UNCHANGED formVars

\* lines 65-70 in a call that runs next to the one followed: its init
\* response arrives and its constant uploadUrl is set
OtherSessionUrl ==
  /\ pc \in {"idle", "init", "encode", "fetch", "backoff", "done", "failed"}
  /\ \E u \in Urls \ otherUrls : otherUrls' = otherUrls \cup {u}
  /\ UNCHANGED << fileSize, hasOnProgress, pc, totalChunks, uploadUrl, i,
                  start, end, payload, retries, chunkSuccess, lastError,
                  result, thrown, failedAt, progressLog, inFlight, sent,
                  succeeded, attempts, errorLog, prevEnd, initRequests,
                  chunkRequests, pauses, faults, initParsed, returnedId,
                  respStatus, issuedUrl, sessions >>
  /\ UNCHANGED formVars

InitSessions ==
  /\ fileSize \in SessionSizes
  /\ hasOnProgress = FALSE
  /\ SessionInit
  /\ FormInit

NextSessions ==
  \/ StartSession
  \/ InitResponse
  \/ LoopHead
  \/ EncodeDone
  \/ WhileHead
  \/ ChunkResponse
  \/ BackoffDone
  \/ AfterWhile
  \/ NewSession
  \/ OtherSessionUrl

SpecSessions == InitSessions /\ [][NextSessions]_vars

\* --------------------------------------------- SubmissionForm, operations
MAX_FILE_SIZE_MB == 50
\* the files the user may pick: a video, a document, an oversized video
FormFiles ==
  { [name |-> << "clip", "mov" >>, size |-> CHUNK_SIZE + 1, type |-> "video"],
    [name |-> << "notes", "pdf" >>, size |-> 1, type |-> "document"],
    [name |-> << "long", "mp4" >>, size |-> MAX_FILE_SIZE_MB * 1024 * 1024 + 1,
     type |-> "video"] }
\* what the user may type into the text fields and the script URL field
FieldValues ==
  [firstName |-> {" B/ob "}, lastName |-> {"Lee"}, section |-> {"S1"}]
TypedUrls == {""}

\* String.prototype.trim and the replace of line 228 on the values above
Trim(v) == IF v = " B/ob " THEN "B/ob" ELSE v
StripIllegal(v) == IF v = "B/ob" THEN "Bob" ELSE v

\* lines 223-229
GenerateRenamedFilename(fd) ==
  LET ext == IF fd.file.name = << >> \/ fd.file.name[Len(fd.file.name)] = ""
               THEN "mp4" ELSE fd.file.name[Len(fd.file.name)]
  IN << "Video Upload", StripIllegal(Trim(fd.section)),
        StripIllegal(Trim(fd.firstName)), StripIllegal(Trim(fd.lastName)),
        StripIllegal(ext) >>

\* the positions at which uploadFileToScript is suspended or has ended
Suspended ==
  pc \in {"idle", "init", "encode", "fetch", "backoff", "done", "failed"}
\* whether the session submission n awaits has settled
Settled(n) == subs[n].tracked /\ pc \in {"done", "failed"}
\* a settled promise whose continuation in handleSubmit has not run yet
ResumePending == \E n \in 1..MaxSubmits : subs[n].pos = "upload" /\ Settled(n)
\* the submissions whose upload session is in progress
SessionsPending ==
  { n \in 1..MaxSubmits : subs[n].pos = "upload" /\ ~Settled(n) }
\* an event handler of the form can run: the main form is rendered
\* (line 317) and no other code is running
FormReady == Suspended /\ ~ResumePending /\ status.state # "success"
\* one more user event is handled
UserEvent == events < MaxEvents /\ events' = events + 1

\* lines 182-185
HandleInputChange ==
  /\ UNCHANGED testVars
  /\ FormReady
  /\ UserEvent
  /\ \E f \in DOMAIN FieldValues : \E v \in FieldValues[f] :
       formData' = [formData EXCEPT ![f] = v]
  /\ UNCHANGED << scriptUrl, status, progress, subs, downloadLog >>
  /\ UNCHANGED sessionVars

\* lines 187-212; the input is rendered while no file is attached (521-530)
HandleFileChange ==
  /\ UNCHANGED testVars
  /\ FormReady
  /\ UserEvent
  /\ formData.file = NoFile
  /\ \E f \in FormFiles :
       IF f.type # "video"
         THEN /\ status' = [state |-> "error", message |-> << "not a video" >>,
                            renamedFileName |-> << >>]
              /\ UNCHANGED << formData, progress >>
         ELSE IF f.size > MAX_FILE_SIZE_MB * 1024 * 1024
           THEN /\ status' = [state |-> "error",
                              message |-> << "too large" >>,
                              renamedFileName |-> << >>]
                /\ UNCHANGED << formData, progress >>
           ELSE /\ formData' = [formData EXCEPT !.file = f]
                /\ status' = [state |-> "idle", message |-> << "" >>,
                              renamedFileName |-> << >>]
                /\ progress' = 0
  /\ UNCHANGED << scriptUrl, subs, downloadLog >>
  /\ UNCHANGED sessionVars

\* lines 214-221; the button is rendered while a file is attached (556-562)
ClearFile ==
  /\ UNCHANGED testVars
  /\ FormReady
  /\ UserEvent
  /\ formData.file # NoFile
  /\ formData' = [formData EXCEPT !.file = NoFile]
  /\ status' = [state |-> "idle", message |-> << "" >>,
                renamedFileName |-> << >>]
  /\ progress' = 0
  /\ UNCHANGED << scriptUrl, subs, downloadLog >>
  /\ UNCHANGED sessionVars

\* lines 303-315; the button of the success view (317-342)
ResetForm ==
  /\ UNCHANGED testVars
  /\ Suspended
  /\ ~ResumePending
  /\ UserEvent
  /\ status.state = "success"
  /\ formData' = [firstName |-> "", lastName |-> "", section |-> "",
                  file |-> NoFile]
  /\ status' = [state |-> "idle", message |-> << "" >>,
                renamedFileName |-> << >>]
  /\ progress' = 0
  /\ UNCHANGED << scriptUrl, subs, downloadLog >>
  /\ UNCHANGED sessionVars

\* lines 155-160
HandleScriptUrlChange ==
  /\ FormReady
  /\ UserEvent
  /\ \E val \in TypedUrls : scriptUrl' = Trim(val)
  /\ testStatus' = "idle"
  /\ UNCHANGED << testMessage, testLog, lastFinished >>
  /\ UNCHANGED << formData, status, progress, subs, downloadLog >>
  /\ UNCHANGED sessionVars

\* lines 162-166; the button is rendered while the URL is not the default
\* one (394-398)
RestoreDefaultScript ==
  /\ FormReady
  /\ UserEvent
  /\ scriptUrl # DEFAULT_SCRIPT_URL
  /\ scriptUrl' = DEFAULT_SCRIPT_URL
  /\ testStatus' = "idle"
  /\ UNCHANGED << testMessage, testLog, lastFinished >>
  /\ UNCHANGED << formData, status, progress, subs, downloadLog >>
  /\ UNCHANGED sessionVars

\* drive.ts 137-146, called for submission n
DownloadRenamedFile(n, file, filename) ==
  downloadLog' = Append(downloadLog,
                        [sub |-> n, file |-> file, filename |-> filename,
                         pending |-> SessionsPending \ {n}])

\* variant: the name is generated again when it is used
RenamedFileRegenerated(n) == GenerateRenamedFilename(formData)

\* line 238: the constant renamedFile of the handleSubmit call n
RenamedFile(n) == subs[n].renamedFile

\* variant: an upload is attempted whatever the script URL is
CanUploadAlways(url) == TRUE

\* lines 239, 250: a script URL is configured
CanUpload(url) == url # ""

\* line 233: a field or the file is missing
SubmitInvalid ==
  \/ formData.file = NoFile
  \/ formData.firstName = ""
  \/ formData.lastName = ""
  \/ formData.section = ""

\* lines 231-259: the submit button is enabled unless status.state is
\* 'uploading' (592); handleSubmit runs until its first await
HandleSubmit ==
  /\ UNCHANGED testVars
  /\ FormReady
  /\ UserEvent
  /\ status.state # "uploading"
  /\ IF SubmitInvalid
       THEN /\ status' = [state |-> "error", message |-> << "fill in" >>,
                          renamedFileName |-> << >>]
            /\ UNCHANGED << progress, subs >>
            /\ UNCHANGED sessionVars
       ELSE \E n \in 1..MaxSubmits :
              /\ subs[n].pos = "none"
              /\ \A m \in 1..(n - 1) : subs[m].pos # "none"
              /\ status' = [state |-> "uploading",
                            message |-> << "Preparing" >>,
                            renamedFileName |-> << >>]
              /\ progress' = 0
              /\ subs' = [subs EXCEPT ![n] =
                   [pos |-> IF CanUpload(scriptUrl) THEN "upload" ELSE "timer",
                    canUpload |-> CanUpload(scriptUrl),
                    tracked |-> CanUpload(scriptUrl) /\ pc = "idle",
                    delivered |-> 0,
                    error |-> "none",
                    file |-> formData.file,
                    renamedFile |-> GenerateRenamedFilename(formData)]]
              /\ IF CanUpload(scriptUrl) /\ pc = "idle"
                   THEN Begin(formData.file.size, TRUE)
                   ELSE UNCHANGED sessionVars
  /\ UNCHANGED << formData, scriptUrl, downloadLog >>

\* the message of the error a session rejects with: error.message
ErrorMessages(e) ==
  CASE e = "network" ->
         {"Failed to fetch", "NetworkError when attempting to fetch resource",
          "Load failed"}
    [] e = "html" -> {"Script Permission Error: Received HTML"}
    [] e = "parse" -> {"Unexpected token"}
    [] e = "init" ->
         {"Drive Init Failed: x", "Failed to initialize upload session"}
    [] e = "read" -> {""}
    [] e = "http" -> {"HTTP Error: 500"}
    [] e = "status" -> {"Drive API Error: x"}
    [] OTHER -> {"Upload failed after retries"}
\* String.prototype.includes on the messages above
Includes(msg, needle) ==
  \/ msg = needle
  \/ msg = "NetworkError when attempting to fetch resource"
       /\ needle = "NetworkError"
  \/ msg = "Script Permission Error: Received HTML" /\ needle = "Permission"
  \/ msg = "Drive Init Failed: x" /\ needle = "Drive Init Failed"

\* lines 279-290: the label and the detail of the error status
DisplayError(errorMsg) ==
  IF Includes(errorMsg, "Failed to fetch") \/ Includes(errorMsg, "NetworkError")
    THEN << "Connection Error", "Could not connect to Google Drive" >>
    ELSE IF \E needle \in {"Drive Init Failed", "Auth Token Invalid",
                           "Exception", "Permission", "Folder Error",
                           "Folder ID"} : Includes(errorMsg, needle)
      THEN << "Script Configuration Error", errorMsg >>
      ELSE << errorMsg, "Auto-upload failed. File downloaded" >>

\* lines 261-265: the awaited session resolved
SubmitSucceeded(n) ==
  /\ status' = [state |-> "success", message |-> << "File uploaded" >>,
                renamedFileName |-> RenamedFile(n)]
  /\ subs' = [subs EXCEPT ![n].pos = "finished"]
  /\ UNCHANGED << formData, scriptUrl, progress, downloadLog, events >>

\* lines 276-300: the awaited session rejected with an error of message msg
SubmitCatch(n, msg) ==
  LET errorMsg == IF msg = "" THEN "Unknown error" ELSE msg
  IN /\ DownloadRenamedFile(n, subs[n].file, RenamedFile(n))
     /\ status' = [state |-> "error", message |-> DisplayError(errorMsg),
                   renamedFileName |-> RenamedFile(n)]
     /\ subs' = [subs EXCEPT ![n].pos = "finished", ![n].error = errorMsg]
     /\ UNCHANGED << formData, scriptUrl, progress, events >>

\* lines 252-300: the continuation of handleSubmit after the session the
\* model follows has settled
SubmitResume ==
  /\ UNCHANGED testVars
  /\ \E n \in 1..MaxSubmits :
       /\ subs[n].pos = "upload"
       /\ Settled(n)
       /\ IF result = "resolved"
            THEN SubmitSucceeded(n)
            ELSE \E msg \in ErrorMessages(thrown) : SubmitCatch(n, msg)
  /\ UNCHANGED sessionVars

\* the errors a session can reject with
SessionErrors == {"network", "html", "parse", "init", "read", "http", "status"}

\* drive.ts 36-131 for a session that overlaps the one followed step by
\* step: it reports the progress of its next chunk, or it settles and
\* handleSubmit continues
OtherSessionStep ==
  /\ UNCHANGED testVars
  /\ Suspended
  /\ ~ResumePending
  /\ \E n \in 1..MaxSubmits :
       /\ subs[n].pos = "upload"
       /\ ~subs[n].tracked
       /\ LET total == TotalChunks(subs[n].file.size)
          IN \/ /\ subs[n].delivered < total
                /\ progress' = Progress(subs[n].delivered, total)
                /\ status' =
                     [status EXCEPT
                        !.state = "uploading",
                        !.message =
                          << "Uploading", Progress(subs[n].delivered, total) >>]
                /\ subs' = [subs EXCEPT ![n].delivered = @ + 1]
                /\ UNCHANGED << formData, scriptUrl, downloadLog, events >>
             \/ /\ subs[n].delivered = total
                /\ SubmitSucceeded(n)
             \/ \E e \in SessionErrors : \E msg \in ErrorMessages(e) :
                  SubmitCatch(n, msg)
  /\ UNCHANGED sessionVars

\* lines 266-275: no script URL; the 800 ms timer fires
SubmitTimer ==
  /\ UNCHANGED testVars
  /\ Suspended
  /\ ~ResumePending
  /\ \E n \in 1..MaxSubmits :
       /\ subs[n].pos = "timer"
       /\ DownloadRenamedFile(n, subs[n].file, RenamedFile(n))
       /\ status' = [state |-> "success", message |-> << "File downloaded" >>,
                     renamedFileName |-> RenamedFile(n)]
       /\ subs' = [subs EXCEPT ![n].pos = "finished"]
  /\ UNCHANGED << formData, scriptUrl, progress, events >>
  /\ UNCHANGED sessionVars

\* the form, with the first upload session it starts followed step by step
InitForm ==
  /\ fileSize = 0
  /\ hasOnProgress = FALSE
  /\ SessionInit
  /\ FormInit

NextForm ==
  \/ HandleInputChange
  \/ HandleFileChange
  \/ ClearFile
  \/ ResetForm
  \/ HandleScriptUrlChange
  \/ RestoreDefaultScript
  \/ HandleSubmit
  \/ SubmitResume
  \/ OtherSessionStep
  \/ SubmitTimer
  \/ InitResponse
  \/ LoopHead
  \/ EncodeDone
  \/ WhileHead
  \/ ChunkResponse
  \/ BackoffDone
  \/ AfterWhile

SpecForm == InitForm /\ [][NextForm]_vars

\* --------------------------------------------------------- connection test
\* calls of runConnectionTest that send a request
MaxTests == 2
\* what the endpoint answers to a test request: no response, a body that is
\* not JSON, or a JSON body with status 'success', with status 'error' and
\* a message, or without status and message
TestOutcomes == {"network", "parse", "success", "error", "missing"}

\* variant: any status but 'error' passes
TestOkNotError(o) == o \in {"success", "missing"}

\* drive.ts 21-29: testScriptConnection returns true
TestOk(o) == o = "success"

\* drive.ts 21-27 and line 178: the message of the error that is thrown
TestErrorMessage(o) ==
  CASE o = "network" -> "Failed to fetch"
    [] o = "parse" -> "Unexpected token"
    [] o = "error" -> "Drive Init Failed: x"
    [] OTHER -> "Script error"

\* lines 168-172 and drive.ts 21-24: the button is enabled unless a test is
\* running (388); runConnectionTest runs until the request is sent
RunConnectionTest ==
  /\ FormReady
  /\ UserEvent
  /\ testStatus # "testing"
  /\ IF scriptUrl = ""
       THEN UNCHANGED testVars
       ELSE /\ Len(testLog) < MaxTests
            /\ testStatus' = "testing"
            /\ testMessage' = "Testing permissions..."
            /\ testLog' = Append(testLog, [url |-> scriptUrl,
                                           action |-> "test",
                                           outcome |-> "pending"])
            /\ UNCHANGED lastFinished
  /\ UNCHANGED << formData, scriptUrl, status, progress, subs, downloadLog >>
  /\ UNCHANGED sessionVars

\* drive.ts 21-29 and lines 172-179: the request of a test settles and
\* runConnectionTest continues
TestSettles ==
  /\ Suspended
  /\ ~ResumePending
  /\ \E k \in 1..Len(testLog) : \E o \in TestOutcomes :
       /\ testLog[k].outcome = "pending"
       /\ testLog' = [testLog EXCEPT ![k].outcome = o]
       /\ lastFinished' = k
       /\ IF TestOk(o)
            THEN /\ testStatus' = "success"
                 /\ testMessage' = "Connection Successful! Script is ready."
            ELSE /\ testStatus' = "error"
                 /\ testMessage' = TestErrorMessage(o)
  /\ UNCHANGED << formData, scriptUrl, status, progress, subs, downloadLog,
                  events >>
  /\ UNCHANGED sessionVars

\* the form with its connection test, no submission
NextTest ==
  \/ HandleInputChange
  \/ HandleFileChange
  \/ ClearFile
  \/ HandleScriptUrlChange
  \/ RestoreDefaultScript
  \/ RunConnectionTest
  \/ TestSettles

SpecTest == InitForm /\ [][NextTest]_vars

\* ------------------------------------------------------------ properties
Last(s) == s[Len(s)]
ChunkStates == {"encode", "while", "fetch", "backoff", "afterWhile"}
\* round-half-up of the exact quotient a / b
ExactRound(a, b) == (2 * a + b) \div (2 * b)

\* C1: the chunk count is ceil(S / C), i.e. the least n with n * C >= S, and
\* a fully successful session requests exactly the indices 0..n-1
C1_ChunkCount ==
  /\ pc # "idle" =>
       /\ totalChunks >= 0
       /\ totalChunks * CHUNK_SIZE >= fileSize
       /\ (totalChunks - 1) * CHUNK_SIZE < fileSize
  /\ pc = "done" =>
       /\ sent = 0..(totalChunks - 1)
       /\ Cardinality(sent) = totalChunks
       /\ succeeded = sent
C1_Witness ==
  pc = "done" /\ fileSize = CHUNK_SIZE + 1 /\ totalChunks = 2

\* C2: for S > 0 the ranges [start, end) of chunks 0..totalChunks-1 start at
\* 0, each starts where the previous one ended, none is empty, and the last
\* one ends at S; the payload carries exactly the sliced range
C2_Partition ==
  fileSize > 0 =>
    /\ pc = "init" =>
         /\ ChunkStart(0) = 0
         /\ ChunkEnd(totalChunks - 1, fileSize) = fileSize
         /\ \A k \in 0..(totalChunks - 1) :
              /\ ChunkStart(k) < ChunkEnd(k, fileSize)
              /\ k + 1 < totalChunks =>
                   ChunkStart(k + 1) = ChunkEnd(k, fileSize)
    /\ pc \in ChunkStates =>
         /\ start = prevEnd
         /\ start < end
         /\ end <= fileSize
         /\ i = 0 => start = 0
    /\ pc \in {"while", "fetch", "backoff", "afterWhile"} =>
         payload.from = start /\ payload.to = end
    /\ pc = "done" => prevEnd = fileSize
C2_Witness ==
  pc = "done" /\ fileSize = 2 * CHUNK_SIZE + 1 /\ prevEnd = fileSize

\* C3: a zero-byte file has a chunk count of 1 and one (empty) chunk is
\* transmitted
C3_ZeroByteOneChunk ==
  (fileSize = 0 /\ pc # "idle") =>
    /\ totalChunks = 1
    /\ pc = "done" => chunkRequests = 1

\* C4: at most one chunk request is in flight; a request for chunk i is sent
\* only when nothing is in flight, every chunk below i has succeeded, no
\* higher chunk was requested before, and chunk i has not succeeded yet
C4_Sequential ==
  /\ [](Cardinality(inFlight) <= 1)
  /\ [][chunkRequests' # chunkRequests =>
          /\ inFlight = {}
          /\ inFlight' = {i}
          /\ i \notin succeeded
          /\ \A k \in 0..(i - 1) : k \in succeeded
          /\ \A k \in sent : k <= i]_vars
C4_Witness ==
  /\ {0, 1} \subseteq succeeded
  /\ inFlight = {2}
  /\ attempts = 2

\* C5: a chunk is requested at most 3 times, and at least once by the time
\* its delivery is decided
C5_AttemptsBounded ==
  /\ attempts <= 3
  /\ pc = "afterWhile" => attempts >= 1
  /\ (pc = "failed" /\ failedAt = "chunk") => attempts >= 1
  /\ (pc \in ChunkStates /\ i \in succeeded) => attempts >= 1
C5_Witness ==
  pc = "afterWhile" /\ attempts = 3 /\ Len(errorLog) = 3

\* C6: a response with status "error" ends the session at once: it is the
\* last attempt of its chunk, no backoff follows and nothing is resubmitted
C6_StatusErrorTerminal ==
  \A k \in 1..Len(errorLog) :
    errorLog[k] = "status" =>
      /\ k = Len(errorLog)
      /\ attempts = k
      /\ pc \in {"while", "afterWhile", "failed"}
      /\ ~chunkSuccess

\* a chunk whose first two attempts failed transiently and whose third
\* attempt succeeded
ThirdTry ==
  /\ Len(errorLog) = 2
  /\ \A k \in 1..2 : errorLog[k] \in {"network", "http", "parse"}
  /\ attempts = 3
  /\ chunkSuccess

\* C7: a chunk delivered on its third attempt does not fail the session: the
\* loop advances to the next chunk, and when it was the last chunk the
\* session resolves with success and the last progress value is 100
C7_ThirdAttemptSucceeds ==
  /\ []((ThirdTry /\ pc \in {"while", "afterWhile", "loop", "done"}) =>
          result # "rejected")
  /\ [][(ThirdTry /\ pc = "afterWhile") =>
          (pc' = "loop" /\ i' = i + 1 /\ result' = "pending")]_vars
  /\ []((ThirdTry /\ pc = "done") =>
          /\ result = "resolved"
          /\ hasOnProgress =>
               (progressLog # << >> /\ Last(progressLog) = 100))
C7_Witness ==
  /\ ThirdTry
  /\ pc = "done"
  /\ hasOnProgress
  /\ totalChunks = 2
  /\ Last(progressLog) = 100

\* C8: a chunk that failed 3 times fails the session, and the promise
\* rejects with the error of the third attempt
C8_LastErrorSurfaced ==
  /\ []((pc = "failed" /\ failedAt = "chunk") =>
          /\ Len(errorLog) = 3
          /\ attempts = 3
          /\ ~chunkSuccess
          /\ result = "rejected"
          /\ thrown = errorLog[3])
  /\ [](Len(errorLog) = 3 => pc \in {"while", "afterWhile", "failed"})
  /\ [][(pc = "afterWhile" /\ Len(errorLog) = 3) =>
          (pc' = "failed" /\ thrown' = errorLog[3])]_vars
C8_Witness ==
  /\ pc = "failed"
  /\ failedAt = "chunk"
  /\ errorLog = << "network", "http", "parse" >>
  /\ thrown = "parse"

\* C9: the values passed to onProgress never decrease, and a successful
\* session has reported 100 last
C9_ProgressMonotoneTo100 ==
  hasOnProgress =>
    /\ Len(progressLog) >= 2 =>
         progressLog[Len(progressLog) - 1] <= Last(progressLog)
    /\ pc = "done" => (progressLog # << >> /\ Last(progressLog) = 100)

\* C10 as stated: the value reported after chunk i is round(100 * (i + 1) /
\* totalChunks), and 100 is reported after the final chunk only
C10_RoundAnd100OnlyAtEnd ==
  (hasOnProgress /\ progressLog # << >>) =>
    /\ Last(progressLog) = ExactRound(100 * Len(progressLog), totalChunks)
    /\ Last(progressLog) = 100 => Len(progressLog) = totalChunks

\* C10 amended: the value reported after chunk i is an integer within 1/2 of
\* 100 * (i + 1) / totalChunks, it is 100 after the final chunk, and it is
\* 100 after an earlier chunk only when totalChunks >= 200
C10_NearestAnd100 ==
  (hasOnProgress /\ progressLog # << >>) =>
    LET k == Len(progressLog)
        p == Last(progressLog)
    IN /\ 2 * totalChunks * p - totalChunks <= 200 * k
       /\ 200 * k <= 2 * totalChunks * p + totalChunks
       /\ k = totalChunks => p = 100
       /\ (p = 100 /\ k < totalChunks) => totalChunks >= 200
C10_Witness ==
  /\ hasOnProgress
  /\ totalChunks >= 200
  /\ Len(progressLog) = totalChunks
  /\ progressLog[totalChunks - 1] = 100

\* C11: an init response of content type text/html fails the session at
\* once with the misconfiguration error; the body is not parsed and no chunk
\* request is sent
C11_HtmlInitFatal ==
  /\ (pc = "failed" /\ failedAt = "init" /\ ~initParsed) =>
       thrown \in {"html", "network"}
  /\ thrown = "html" =>
       /\ pc = "failed"
       /\ failedAt = "init"
       /\ result = "rejected"
       /\ ~initParsed
       /\ chunkRequests = 0
       /\ sent = {}
C11_Witness ==
  thrown = "html" /\ pc = "failed" /\ initRequests = 1

\* C12: the init request is sent once and never again, and a session whose
\* init failed (or that has no upload URL) has sent no chunk request
C12_InitOnce ==
  /\ initRequests <= 1
  /\ pc # "idle" => initRequests = 1
  /\ failedAt = "init" =>
       /\ pc = "failed"
       /\ result = "rejected"
       /\ uploadUrl = "none"
       /\ chunkRequests = 0
       /\ sent = {}
       /\ pauses = 0
  /\ uploadUrl = "none" => chunkRequests = 0
C12_Witness ==
  failedAt = "init" /\ thrown = "init" /\ initParsed /\ initRequests = 1

\* the calls of downloadRenamedFile made for submission n
Downloads(n) == { k \in 1..Len(downloadLog) : downloadLog[k].sub = n }
\* the elements of a sequence
Range(s) == { s[k] : k \in 1..Len(s) }
\* the short labels the catch block of handleSubmit puts in front
CategoryLabels == {"Connection Error", "Script Configuration Error"}

\* C13: once a chunk has failed 3 times no request is sent for a later chunk;
\* the file and the name of a submission are those of the form when it was
\* submitted and never change, and when its session has failed the file is
\* downloaded exactly once, under that name
C13_FallbackOnceOriginalName ==
  /\ []((pc = "failed" /\ failedAt = "chunk") =>
          /\ attempts = 3
          /\ inFlight = {}
          /\ \A k \in sent : k <= i)
  /\ [][(pc = "failed") =>
          (sent' = sent /\ chunkRequests' = chunkRequests /\ pc' = pc)]_vars
  /\ [][\A n \in 1..MaxSubmits :
          /\ (subs[n].pos = "none" /\ subs'[n].pos # "none") =>
               /\ subs'[n].renamedFile = GenerateRenamedFilename(formData)
               /\ subs'[n].file = formData.file
          /\ subs[n].pos # "none" =>
               /\ subs'[n].renamedFile = subs[n].renamedFile
               /\ subs'[n].file = subs[n].file]_vars
  /\ [](\A n \in 1..MaxSubmits :
          /\ subs[n].pos = "upload" => Downloads(n) = {}
          /\ (subs[n].pos = "finished" /\ subs[n].error # "none") =>
               /\ Cardinality(Downloads(n)) = 1
               /\ \A k \in Downloads(n) :
                    /\ downloadLog[k].filename = subs[n].renamedFile
                    /\ downloadLog[k].file = subs[n].file)
C13_Witness ==
  /\ pc = "failed"
  /\ failedAt = "chunk"
  /\ i = 0
  /\ sent = {0}
  /\ subs[1].tracked
  /\ subs[1].pos = "finished"
  /\ formData.file = NoFile
  /\ Len(downloadLog) = 1
  /\ downloadLog[1].filename = << "Video Upload", "S1", "Bob", "Lee", "mov" >>

\* C14 as stated: the promise of uploadFileToScript never rejects
C14_NeverRejects == result # "rejected"

\* C14 amended: the promise resolves only when every chunk was delivered; on
\* every failure (init, encoding, retries exhausted) it rejects with the
\* error that caused it, and it settles once
C14_RejectsOnFailure ==
  /\ []((result = "rejected") <=> (pc = "failed"))
  /\ []((result = "resolved") <=> (pc = "done"))
  /\ [](result = "rejected" =>
          (thrown # "none" /\ failedAt \in {"init", "encode", "chunk"}))
  /\ [](result = "resolved" =>
          (thrown = "none" /\ succeeded = 0..(totalChunks - 1)))
  /\ [][(result # "pending") => (result' = result /\ thrown' = thrown)]_vars
C14_Witness ==
  /\ result = "rejected"
  /\ failedAt = "encode"
  /\ thrown = "read"
  /\ succeeded = {0}

\* C15: no download is made while an upload session started from the form
\* is in progress
C15_NoDownloadWhilePending ==
  \A k \in 1..Len(downloadLog) : downloadLog[k].pending = {}

\* C16: when a session fails the file is downloaded and the form is in the
\* error state with a message made of a category label and of the message
\* of the error that was caught
C16_LabelAndDiagnostic ==
  [][\A n \in 1..MaxSubmits :
       (subs[n].pos = "upload" /\ subs'[n].pos = "finished"
          /\ subs'[n].error # "none") =>
         /\ Len(downloadLog') = Len(downloadLog) + 1
         /\ status'.state = "error"
         /\ status'.message[1] \in CategoryLabels
         /\ subs'[n].error \in Range(status'.message)]_vars

\* C17: a submission made while the script URL is empty starts no session
\* and sends no request, waits for its timer and downloads the renamed file
\* exactly once
C17_NoUrlDownloadsOnce ==
  /\ [][\A n \in 1..MaxSubmits :
          (subs[n].pos = "none" /\ subs'[n].pos # "none" /\ scriptUrl = "") =>
            /\ subs'[n].pos = "timer"
            /\ ~subs'[n].canUpload
            /\ ~subs'[n].tracked
            /\ UNCHANGED sessionVars]_vars
  /\ [][\A n \in 1..MaxSubmits :
          (subs[n].pos = "timer") => (subs'[n].pos \in {"timer", "finished"})]_vars
  /\ [](\A n \in 1..MaxSubmits :
          (subs[n].pos # "none" /\ ~subs[n].canUpload) =>
            /\ ~subs[n].tracked
            /\ subs[n].pos \in {"timer", "finished"}
            /\ subs[n].pos = "timer" => Downloads(n) = {}
            /\ subs[n].pos = "finished" =>
                 /\ Cardinality(Downloads(n)) = 1
                 /\ \A k \in Downloads(n) :
                      downloadLog[k].filename = subs[n].renamedFile)
C17_Witness ==
  /\ subs[1].pos = "finished"
  /\ ~subs[1].canUpload
  /\ Len(downloadLog) = 1
  /\ downloadLog[1].sub = 1
  /\ initRequests = 0
  /\ chunkRequests = 0
  /\ pc = "idle"

\* C18: a session identifier returned with chunk 0's response is on the
\* payload of every later chunk
C18_SessionIdAttached ==
  (/\ returnedId # "none"
   /\ i >= 1
   /\ pc \in {"while", "fetch", "backoff", "afterWhile"}) =>
    returnedId \in PayloadIds(payload)

\* C19: when the encode step of chunk i fails the session fails with the
\* read error; no request was or will be sent for chunk i or a later one,
\* and no retry or pause follows
C19_EncodeFailureFatal ==
  /\ [](failedAt = "encode" =>
          /\ pc = "failed"
          /\ result = "rejected"
          /\ thrown = "read"
          /\ sent = 0..(i - 1)
          /\ inFlight = {})
  /\ [][(pc = "encode" /\ pc' # "while") =>
          (/\ pc' = "failed"
           /\ failedAt' = "encode"
           /\ chunkRequests' = chunkRequests
           /\ pauses' = pauses)]_vars
  /\ [][failedAt = "encode" =>
          (chunkRequests' = chunkRequests /\ pauses' = pauses /\ pc' = pc)]_vars
C19_Witness ==
  failedAt = "encode" /\ i = 1 /\ totalChunks = 3 /\ chunkRequests >= 1

\* C20: the session resolves only when every chunk has succeeded, a session
\* without failures has sent 1 init request and totalChunks chunk requests,
\* and a session that has resolved or failed sends nothing more
C20_ResolveAfterAllChunks ==
  /\ [](pc = "done" =>
          /\ result = "resolved"
          /\ succeeded = 0..(totalChunks - 1)
          /\ inFlight = {}
          /\ faults = 0 =>
               (initRequests = 1 /\ chunkRequests = totalChunks))
  /\ [](result = "resolved" => pc = "done")
  /\ [][(pc \in {"done", "failed"}) =>
          (/\ initRequests' = initRequests
           /\ chunkRequests' = chunkRequests
           /\ pc' = pc)]_vars
C20_Witness ==
  pc = "done" /\ faults = 0 /\ totalChunks = 3 /\ chunkRequests = 3

\* the errors of the transport: no response, a non-success HTTP status, a
\* body that cannot be parsed
TransportErrors == {"network", "http", "parse"}
\* the positions inside the retry loop of a chunk
RetryStates == {"while", "fetch", "backoff", "afterWhile"}

\* C21: a chunk attempt that ends with a network error, a non-success HTTP
\* status or an unparsable body is never accepted and costs exactly one of
\* the 3 attempts; while attempts remain the same chunk is sent again, and
\* the session fails at a chunk only after its third failed attempt
C21_TransportErrorsRetried ==
  /\ [](pc \in RetryStates =>
          /\ retries = RETRIES - Len(errorLog)
          /\ attempts = Len(errorLog) + (IF chunkSuccess \/ pc = "fetch"
                                           THEN 1 ELSE 0))
  /\ []((chunkSuccess /\ pc \in RetryStates) => respStatus # "none")
  /\ [][(pc = "fetch" /\ errorLog' # errorLog
           /\ Last(errorLog') \in TransportErrors) =>
          (/\ Len(errorLog') = Len(errorLog) + 1
           /\ retries' = retries - 1
           /\ ~chunkSuccess'
           /\ i' = i
           /\ pc' = IF Len(errorLog') < RETRIES THEN "backoff" ELSE "while")]_vars
  /\ [][(pc = "backoff") =>
          (pc' = "while" /\ i' = i /\ payload' = payload)]_vars
  /\ [][(pc = "while" /\ ~chunkSuccess /\ Len(errorLog) < RETRIES) =>
          (pc' = "fetch" /\ inFlight' = {i} /\ attempts' = attempts + 1)]_vars
  /\ []((pc = "failed" /\ failedAt = "chunk") => Len(errorLog) = RETRIES)
C21_Witness ==
  /\ pc = "fetch"
  /\ attempts = 3
  /\ errorLog = << "parse", "http" >>
  /\ inFlight = {1}

\* C22: a pause is taken only between two attempts of the same chunk: one
\* after each failed attempt that a retry follows, none after the third
\* failed attempt and none after a success; the payload of a chunk is the
\* same at every attempt
C22_PauseBetweenAttempts ==
  /\ [](pauses = faults - (IF pc = "backoff" THEN 1 ELSE 0)
                        - (IF Len(errorLog) = RETRIES THEN 1 ELSE 0))
  /\ [](pc = "backoff" =>
          (~chunkSuccess /\ Len(errorLog) \in 1..(RETRIES - 1)))
  /\ [][(pauses' # pauses) =>
          (/\ pauses' = pauses + 1
           /\ pc = "backoff"
           /\ pc' = "while"
           /\ i' = i)]_vars
  /\ [][(pc = "fetch" /\ pc' = "while" /\ errorLog' = errorLog) =>
          pauses' = pauses]_vars
  /\ [][(pc \in RetryStates /\ pc' \in RetryStates) =>
          (payload' = payload /\ uploadUrl' = uploadUrl)]_vars
  /\ [](pc \in RetryStates =>
          (/\ payload.uploadUrl = uploadUrl
           /\ payload.from = start
           /\ payload.to = end))
C22_Witness ==
  /\ pc = "failed"
  /\ failedAt = "chunk"
  /\ i = 1
  /\ faults = 3
  /\ pauses = 2

\* C23: for a non-empty file the range sent with chunk i is
\* start-end/total with start = i * CHUNK_SIZE, end = min(fileSize, start +
\* CHUNK_SIZE) - 1 and total = fileSize, start <= end < total; the range of
\* chunk i + 1 starts right after the end of chunk i and the range of the
\* last chunk ends at fileSize - 1
C23_RangeDescriptor ==
  (fileSize > 0 /\ pc \in RetryStates) =>
    /\ payload.rangeStart = i * CHUNK_SIZE
    /\ payload.rangeEnd = Min(fileSize, payload.rangeStart + CHUNK_SIZE) - 1
    /\ payload.rangeTotal = fileSize
    /\ payload.rangeStart <= payload.rangeEnd
    /\ payload.rangeEnd < payload.rangeTotal
    /\ i >= 1 => payload.rangeStart = RangeEnd(prevEnd) + 1
    /\ i = totalChunks - 1 => payload.rangeEnd = fileSize - 1
    /\ (i = 0 /\ pc = "while" /\ attempts = 0) =>
         \A k \in 0..(totalChunks - 2) :
           ChunkStart(k + 1) = RangeEnd(ChunkEnd(k, fileSize)) + 1
C23_Witness ==
  /\ pc = "fetch"
  /\ i = 2
  /\ totalChunks = 3
  /\ payload.rangeStart = 2 * CHUNK_SIZE
  /\ payload.rangeEnd = fileSize - 1
  /\ fileSize = 2 * CHUNK_SIZE + 1

\* C24: every chunk request of a session, retries included, carries the url
\* of the init response of that session, whatever urls other sessions were
\* given before or meanwhile; a session has no url and sends no chunk before
\* its own init response
C24_OwnUploadUrl ==
  /\ [](pc \in RetryStates =>
          (/\ issuedUrl \in Urls
           /\ uploadUrl = issuedUrl
           /\ payload.uploadUrl = issuedUrl))
  /\ [](pc \in {"idle", "init"} =>
          (uploadUrl = "none" /\ chunkRequests = 0 /\ sent = {}))
  /\ [][(chunkRequests' > chunkRequests) =>
          (payload.uploadUrl = issuedUrl /\ issuedUrl' = issuedUrl)]_vars
  /\ [][(pc \in RetryStates /\ pc' \in RetryStates) =>
          payload'.uploadUrl = payload.uploadUrl]_vars
  /\ [][(pc \notin {"init", "done", "failed"}) =>
          (uploadUrl' = uploadUrl /\ issuedUrl' = issuedUrl)]_vars
C24_Witness ==
  /\ sessions = 2
  /\ otherUrls = {"urlA"}
  /\ issuedUrl = "urlB"
  /\ pc = "fetch"
  /\ i = 1
  /\ attempts = 2
  /\ payload.uploadUrl = "urlB"

\* C26: a chunk counts as delivered only when the response to it carries
\* the status "success"
C26_SuccessStatusOnly ==
  (chunkSuccess /\ pc \in {"while", "afterWhile"}) => respStatus = "success"

\* C27: at most one upload session started from the form is in progress
C27_OneSessionPerForm == Cardinality(SessionsPending) <= 1

\* C28: a session sends at most 1 + 3 * totalChunks requests and takes at
\* most 2 * totalChunks pauses, and when every step that can be taken is
\* eventually taken it ends resolved or rejected
C28_Terminates ==
  /\ [](/\ initRequests <= 1
        /\ chunkRequests <= 3 * totalChunks
        /\ initRequests + chunkRequests <= 1 + 3 * totalChunks
        /\ pauses <= 2 * totalChunks)
  /\ [](pc \in RetryStates =>
          (chunkRequests <= 3 * i + attempts /\ pauses <= 2 * i + 2))
  /\ <>(pc \in {"done", "failed"})
  /\ [](pc \in {"done", "failed"} => result # "pending")
C28_Witness ==
  /\ pc = "failed"
  /\ totalChunks = 1
  /\ initRequests + chunkRequests = 1 + 3 * totalChunks
  /\ pauses = 2 * totalChunks

\* C29: onProgress is called once for each delivered chunk, after its
\* success and before a request for the next chunk, never for a failed
\* attempt and never after the session failed: i calls have been made when
\* chunk i is next, totalChunks calls when the session has resolved
C29_OneCallPerChunk ==
  /\ [](Len(progressLog) = IF hasOnProgress THEN i ELSE 0)
  /\ [](pc = "done" => i = totalChunks)
  /\ [](succeeded =
          0..(i - 1) \cup (IF chunkSuccess /\ pc \in {"while", "afterWhile"}
                             THEN {i} ELSE {}))
  /\ [][(progressLog' # progressLog) =>
          (/\ progressLog' = Append(progressLog, Progress(i, totalChunks))
           /\ pc = "afterWhile"
           /\ chunkSuccess
           /\ i \in succeeded
           /\ inFlight = {}
           /\ (i + 1) \notin sent
           /\ i' = i + 1)]_vars
  /\ [][(chunkRequests' # chunkRequests /\ hasOnProgress) =>
          Len(progressLog) = i]_vars
  /\ [][(errorLog' # errorLog \/ pc = "failed") =>
          progressLog' = progressLog]_vars
C29_Witness ==
  /\ hasOnProgress
  /\ pc = "failed"
  /\ failedAt = "chunk"
  /\ totalChunks = 3
  /\ i = 2
  /\ Len(progressLog) = 2

\* a call of testScriptConnection settles in this step
TestSettled ==
  \E k \in 1..Len(testLog) :
    testLog[k].outcome = "pending" /\ testLog'[k].outcome # "pending"

\* C25: a connection test sends one request, marked action "test"; it ends
\* with the test status success exactly when the response has status
\* "success" and with error otherwise; starting and ending a test changes
\* nothing but the test status and message
C25_TestSurface ==
  /\ [](\A k \in 1..Len(testLog) : testLog[k].action = "test")
  /\ [](testStatus = "testing" =>
          \E k \in 1..Len(testLog) : testLog[k].outcome = "pending")
  /\ [][(testLog' # testLog) =>
          (/\ Len(testLog') <= Len(testLog) + 1
           /\ UNCHANGED << formData, scriptUrl, status, progress, subs,
                           downloadLog >>
           /\ UNCHANGED sessionVars)]_vars
  /\ [][TestSettled =>
          (/\ Len(testLog') = Len(testLog)
           /\ testLog'[lastFinished'].outcome # "pending"
           /\ testStatus' = IF testLog'[lastFinished'].outcome = "success"
                              THEN "success" ELSE "error")]_vars
  /\ [][(Len(testLog') > Len(testLog)) =>
          (/\ scriptUrl # ""
           /\ Last(testLog') = [url |-> scriptUrl, action |-> "test",
                                outcome |-> "pending"]
           /\ testStatus' = "testing")]_vars
C25_Witness ==
  /\ Len(testLog) = 1
  /\ testLog[1].outcome = "missing"
  /\ testStatus = "error"
  /\ testMessage = "Script error"
  /\ status.state = "error"
  /\ formData.file = NoFile
  /\ formData.firstName # ""

\* C30: the test status is success or error only when the test that ended
\* last ran against the script URL that is configured now
C30_TestStatusCurrentUrl ==
  testStatus \in {"success", "error"} =>
    (lastFinished # 0 /\ testLog[lastFinished].url = scriptUrl)

====
